---- MODULE Spec2Model ----
(***************************************************************************)
(* fontTools.varLib.partialInstancer: partial instantiation of a variable  *)
(* font.  The font is a record of tables; every instantiate* function of   *)
(* the source is an operator from (varfont, location) to the mutated       *)
(* varfont, and instantiateVariableFont is the state machine that runs     *)
(* them in the source's order.                                             *)
(*                                                                         *)
(* Numbers are exact rationals <<numerator, denominator>> (denominator     *)
(* > 0, lowest terms); Python's "None" is the pair <<0, 0>>.  Glyph        *)
(* coordinates carry one coordinate per point: GlyphCoordinates arithmetic *)
(* and IUP treat x and y separately and identically.                       *)
(***************************************************************************)
EXTENDS Integers, Sequences, FiniteSets, TLC

VARIABLES
    varfont,      \* the font object the instancer mutates
    callerFont,   \* the font object the caller passed (the same object when inplace)
    font0,        \* the caller's font as it was at the call (history)
    axis_limits,  \* the caller's axis_limits dictionary (mutated by normalizeAxisLimits)
    limits0,      \* axis_limits as it was at the call (history)
    inplace,      \* the inplace argument
    pc,           \* position in instantiateVariableFont
    err,          \* the exception raised and the function that raised it
    glyphnames,   \* instantiateGvar: the glyphs of the sorted list still to process
    processed,    \* instantiateGvar: the glyphs handed to instantiateGvarGlyph, in order (history)
    results       \* the outcomes of the calls that have returned (history)

vars == <<varfont, callerFont, font0, axis_limits, limits0, inplace, pc, err,
          glyphnames, processed, results>>

-----------------------------------------------------------------------------
(* Exact rational arithmetic *)

Abs(x) == IF x < 0 THEN -x ELSE x

RECURSIVE GCD(_, _)
GCD(a, b) == IF b = 0 THEN a ELSE GCD(b, a % b)

Rat(n, d) ==
    LET g == GCD(Abs(n), Abs(d))
        s == IF d < 0 THEN -1 ELSE 1
    IN  <<(s * n) \div g, (s * d) \div g>>

R(n) == <<n, 1>>
None == <<0, 0>>
Zero == <<0, 1>>
One == <<1, 1>>

RAdd(a, b) == Rat(a[1] * b[2] + b[1] * a[2], a[2] * b[2])
RSub(a, b) == Rat(a[1] * b[2] - b[1] * a[2], a[2] * b[2])
RMul(a, b) == Rat(a[1] * b[1], a[2] * b[2])
RDiv(a, b) == Rat(a[1] * b[2], a[2] * b[1])
RLt(a, b) == a[1] * b[2] < b[1] * a[2]
RLe(a, b) == a[1] * b[2] <= b[1] * a[2]
Floor(a) == a[1] \div a[2]

RECURSIVE RSum(_)
RSum(s) == IF s = <<>> THEN Zero ELSE RAdd(Head(s), RSum(Tail(s)))

Range(s) == {s[i] : i \in DOMAIN s}

RECURSIVE SetToSeq(_)
SetToSeq(S) ==
    IF S = {} THEN <<>>
    ELSE LET x == CHOOSE y \in S : TRUE IN <<x>> \o SetToSeq(S \ {x})

RECURSIVE SelectIdx(_, _, _)
\* the subsequence of s at the indices i (ascending) with keep[i]
SelectIdx(s, keep, i) ==
    IF i > Len(s) THEN <<>>
    ELSE (IF keep[i] THEN <<s[i]>> ELSE <<>>) \o SelectIdx(s, keep, i + 1)

-----------------------------------------------------------------------------
(* fontTools.misc.fixedTools, fontTools.varLib.models *)

\* otRound: round to the nearest integer, halves away from zero
otRound(a) ==
    IF a[1] >= 0 THEN (2 * a[1] + a[2]) \div (2 * a[2])
    ELSE -((2 * (-a[1]) + a[2]) \div (2 * a[2]))

\* Python's round(): halves to even
roundHalfEven(a) ==
    LET f == Floor(a)
        twice == RSub(RMul(R(2), a), R(2 * f))   \* 2 * (a - f), in [0, 2)
    IN  IF RLt(twice, One) THEN f
        ELSE IF RLt(One, twice) THEN f + 1
        ELSE IF f % 2 = 0 THEN f ELSE f + 1

\* floatToFixedToFloat(value, 14): quantize to F2Dot14
floatToFixedToFloat(value, precisionBits) ==
    LET scale == 2 ^ precisionBits
    IN  Rat(roundHalfEven(RMul(value, R(scale))), scale)

\* normalizeValue(v, triple): user space to [-1, +1]
normalizeValue(v, triple) ==
    LET lower == triple[1]
        default == triple[2]
        upper == triple[3]
        c == IF RLt(v, lower) THEN lower ELSE IF RLt(upper, v) THEN upper ELSE v
    IN  IF c = default THEN Zero
        ELSE IF RLt(c, default) THEN RDiv(RSub(c, default), RSub(default, lower))
        ELSE RDiv(RSub(c, default), RSub(upper, default))

\* piecewiseLinearMap(v, mapping): mapping is a set of <<from, to>> pairs
piecewiseLinearMap(v, mapping) ==
    LET keys == {p[1] : p \in mapping}
        to(k) == (CHOOSE p \in mapping : p[1] = k)[2]
        lo == CHOOSE k \in keys : \A j \in keys : RLe(k, j)
        hi == CHOOSE k \in keys : \A j \in keys : RLe(j, k)
    IN  IF v \in keys THEN to(v)
        ELSE IF RLt(v, lo) THEN to(lo)
        ELSE IF RLt(hi, v) THEN to(hi)
        ELSE LET a == CHOOSE k \in keys : RLt(k, v) /\ \A j \in keys : RLt(j, v) => RLe(j, k)
                 b == CHOOSE k \in keys : RLt(v, k) /\ \A j \in keys : RLt(v, j) => RLe(k, j)
             IN  RAdd(to(a), RDiv(RMul(RSub(to(b), to(a)), RSub(v, a)), RSub(b, a)))

\* one axis' factor of the support scalar
axisScalar(location, axis, triple) ==
    LET start == triple[1]
        peak == triple[2]
        end == triple[3]
        c == IF axis \in DOMAIN location THEN location[axis] ELSE Zero
    IN  IF peak = Zero THEN One
        ELSE IF c = peak THEN One
        ELSE IF RLe(c, start) \/ RLe(end, c) THEN Zero
        ELSE IF RLt(c, peak) THEN RDiv(RSub(c, start), RSub(peak, start))
        ELSE RDiv(RSub(end, c), RSub(end, peak))

RECURSIVE scalarProduct(_, _, _)
scalarProduct(location, support, axes) ==
    IF axes = {} THEN One
    ELSE LET a == CHOOSE x \in axes : TRUE
         IN  RMul(axisScalar(location, a, support[a]),
                  scalarProduct(location, support, axes \ {a}))

\* supportScalar(location, support): support maps axis tags to (start, peak, end)
supportScalar(location, support) == scalarProduct(location, support, DOMAIN support)

-----------------------------------------------------------------------------
(* The font's axes (fvar) *)

Tags == {"wght", "wdth"}

fvarAxes ==
    << [axisTag |-> "wght", minValue |-> R(100), defaultValue |-> R(400), maxValue |-> R(900)],
       [axisTag |-> "wdth", minValue |-> R(50), defaultValue |-> R(100), maxValue |-> R(200)] >>

\* a dictionary restricted to some of its keys
Restrict(f, S) == [k \in S |-> f[k]]

-----------------------------------------------------------------------------
(* fontTools.varLib.iup *)

\* iup_segment for one untouched point at x between the references (x1, d1), (x2, d2)
iup_segment(x, ra, da, rb, db) ==
    IF ra = rb THEN (IF da = db THEN da ELSE Zero)
    ELSE LET x1 == IF RLt(rb, ra) THEN rb ELSE ra
             x2 == IF RLt(rb, ra) THEN ra ELSE rb
             d1 == IF RLt(rb, ra) THEN db ELSE da
             d2 == IF RLt(rb, ra) THEN da ELSE db
         IN  IF RLe(x, x1) THEN d1
             ELSE IF RLe(x2, x) THEN d2
             ELSE RAdd(d1, RDiv(RMul(RSub(x, x1), RSub(d2, d1)), RSub(x2, x1)))

\* iup_contour: the inferred delta of point i of the contour first..last
iup_contour(delta, coords, first, last, i) ==
    LET touched == {j \in first..last : delta[j] # None}
        before == {j \in touched : j < i}
        after == {j \in touched : j > i}
        Max(S) == CHOOSE j \in S : \A k \in S : k <= j
        Min(S) == CHOOSE j \in S : \A k \in S : j <= k
        r1 == IF before # {} THEN Max(before) ELSE Max(touched)
        r2 == IF after # {} THEN Min(after) ELSE Min(touched)
    IN  IF delta[i] # None THEN delta[i]
        ELSE IF touched = {} THEN Zero
        ELSE iup_segment(coords[i], coords[r1], delta[r1], coords[r2], delta[r2])

\* iup_delta(delta, coords, ends): every contour of the glyph
iup_delta(delta, coords, ends) ==
    [i \in 1..Len(delta) |->
        LET c == CHOOSE k \in 1..Len(ends) :
                    /\ i <= ends[k]
                    /\ (k = 1 \/ ends[k - 1] < i)
        IN  iup_contour(delta, coords, IF c = 1 THEN 1 ELSE ends[c - 1] + 1, ends[c], i)]

-----------------------------------------------------------------------------
(* gvar *)

scaleCoordinates(deltas, scalar) == [i \in 1..Len(deltas) |-> RMul(deltas[i], scalar)]
addCoordinates(a, b) == [i \in 1..Len(a) |-> RAdd(a[i], b[i])]

\* a deletion that leaves the pinned axes in the tuple
deleteAxes_none(axes, pinnedTupleAxes) == axes

\* the axes of a tuple left after the pinned ones are deleted
deleteAxes(axes, pinnedTupleAxes) == Restrict(axes, DOMAIN axes \ pinnedTupleAxes)

\* a mixed gvar tuple after rescaling: the pinned axes are deleted
adjustedTuple(var, scaledDeltas, pinnedTupleAxes) ==
    [axes |-> deleteAxes(var.axes, pinnedTupleAxes), coordinates |-> scaledDeltas]

\* the deltas a pinned tuple contributes: untouched points are inferred
\* against the glyph's coordinates as stored in glyf
pinnedDeltas(var, origCoords, endPts) ==
    IF \E i \in 1..Len(var.coordinates) : var.coordinates[i] = None
    THEN iup_delta(var.coordinates, origCoords, endPts)
    ELSE var.coordinates

RECURSIVE gvarLoop(_, _, _, _, _)
\* the loop of instantiateGvarGlyph over variations[k..]; acc holds
\* coordinates, newVariations and defaultModified
gvarLoop(variations, k, location, glyph, acc) ==
    IF k > Len(variations) THEN acc
    ELSE
      LET var == variations[k]
          tupleAxes == DOMAIN var.axes
          pinnedAxes == DOMAIN location
          pinnedTupleAxes == tupleAxes \cap pinnedAxes
          scalar == supportScalar(location, Restrict(var.axes, pinnedTupleAxes))
          scaledDeltas ==
              scaleCoordinates(pinnedDeltas(var, glyph.coordinates, glyph.endPts), scalar)
          next ==
              IF pinnedTupleAxes = {}
              THEN [acc EXCEPT !.newVariations = Append(@, var)]
              ELSE IF scalar = Zero THEN acc
              ELSE IF tupleAxes \subseteq pinnedAxes
              THEN [acc EXCEPT !.coordinates = addCoordinates(@, scaledDeltas),
                               !.defaultModified = TRUE]
              ELSE [acc EXCEPT !.newVariations =
                        Append(@, adjustedTuple(var, scaledDeltas, pinnedTupleAxes))]
      IN  gvarLoop(variations, k + 1, location, glyph, next)

instantiateGvarGlyph(font, location, glyphname) ==
    LET glyph == font.glyf[glyphname]
        res == gvarLoop(font.gvar[glyphname], 1, location, glyph,
                        [coordinates |-> glyph.coordinates,
                         newVariations |-> <<>>,
                         defaultModified |-> FALSE])
        glyf2 == IF res.defaultModified
                 THEN [font.glyf EXCEPT ![glyphname].coordinates = res.coordinates]
                 ELSE font.glyf
    IN  [font EXCEPT !.glyf = glyf2, !.gvar[glyphname] = res.newVariations]

RECURSIVE compositeDepth(_, _)
\* maxComponentDepth of a composite glyph
compositeDepth(glyf, name) ==
    LET comps == Range(glyf[name].components)
        depths == {IF glyf[c].components = <<>> THEN 0 ELSE compositeDepth(glyf, c) : c \in comps}
    IN  1 + (CHOOSE d \in depths : \A e \in depths : e <= d)

\* a sort key without the component depth
glyphKey_nameOnly(glyf, name) == <<0, name>>

\* the sort key of instantiateGvar: (component depth, name)
glyphKey(glyf, name) ==
    <<IF glyf[name].components # <<>> THEN compositeDepth(glyf, name) ELSE 0, name>>

keyLess(a, b) == a[1] < b[1] \/ (a[1] = b[1] /\ a[2] < b[2])

RECURSIVE sortedByKey(_, _)
\* sorted(names, key=...): names are compared by glyphKey
sortedByKey(glyf, names) ==
    IF names = {} THEN <<>>
    ELSE LET m == CHOOSE n \in names :
                    \A o \in names \ {n} : keyLess(glyphKey(glyf, n), glyphKey(glyf, o))
         IN  <<m>> \o sortedByKey(glyf, names \ {m})

\* del varfont[tag]
deleteTable(font, tag) == [font EXCEPT !.tables = @ \ {tag}]

-----------------------------------------------------------------------------
(* cvar *)

\* a mixed cvar tuple after rescaling: deltas rounded, pinned axes deleted
scaledCvarTuple(var, scalar, pinnedTupleAxes) ==
    [axes |-> deleteAxes(var.axes, pinnedTupleAxes),
     coordinates |-> [i \in 1..Len(var.coordinates) |->
                        IF var.coordinates[i] # None
                        THEN R(otRound(RMul(var.coordinates[i], scalar)))
                        ELSE None]]

RECURSIVE cvarLoop(_, _, _, _)
\* the loop of instantiateCvar over variations[k..]; acc holds newVariations
\* and deltas (None where the dictionary has no entry)
cvarLoop(variations, k, location, acc) ==
    IF k > Len(variations) THEN acc
    ELSE
      LET var == variations[k]
          tupleAxes == DOMAIN var.axes
          pinnedAxes == DOMAIN location
          pinnedTupleAxes == tupleAxes \cap pinnedAxes
          scalar == supportScalar(location, Restrict(var.axes, pinnedTupleAxes))
          next ==
              IF pinnedTupleAxes = {}
              THEN [acc EXCEPT !.newVariations = Append(@, var)]
              ELSE IF scalar = Zero THEN acc
              ELSE IF tupleAxes \subseteq pinnedAxes
              THEN [acc EXCEPT !.deltas =
                        [i \in DOMAIN @ |->
                            IF i <= Len(var.coordinates) /\ var.coordinates[i] # None
                            THEN RAdd(IF @[i] = None THEN Zero ELSE @[i],
                                      RMul(scalar, var.coordinates[i]))
                            ELSE @[i]]]
              ELSE [acc EXCEPT !.newVariations =
                        Append(@, scaledCvarTuple(var, scalar, pinnedTupleAxes))]
      IN  cvarLoop(variations, k + 1, location, next)

instantiateCvar(font, location) ==
    LET res == cvarLoop(font.cvar, 1, location,
                        [newVariations |-> <<>>,
                         deltas |-> [i \in 1..Len(font.cvt) |-> None]])
        cvt2 == [i \in 1..Len(font.cvt) |->
                    IF res.deltas[i] # None
                    THEN font.cvt[i] + otRound(res.deltas[i])
                    ELSE font.cvt[i]]
        f2 == [font EXCEPT !.cvt = cvt2]
    IN  IF res.newVariations # <<>>
        THEN [f2 EXCEPT !.cvar = res.newVariations]
        ELSE deleteTable(f2, "cvar")

-----------------------------------------------------------------------------
(* Item variation store *)

\* VarRegion.get_support(fvar.axes)
get_support(region) ==
    [t \in {fvarAxes[i].axisTag : i \in 1..Len(region)} |->
        region[CHOOSE i \in 1..Len(region) : fvarAxes[i].axisTag = t]]

\* the axes that have influence in a region: peak != 0
regionAxes(region) == {a \in DOMAIN get_support(region) : get_support(region)[a][2] # Zero}

\* "keep", "drop" or "rescale"
regionClass(region, pinnedAxes) ==
    LET pinnedRegionAxes == regionAxes(region) \cap pinnedAxes
    IN  IF pinnedRegionAxes = {} THEN "keep"
        ELSE IF Cardinality(pinnedRegionAxes) = Cardinality(regionAxes(region)) THEN "drop"
        ELSE "rescale"

\* the scalar recorded in regionInfluenceMap for a region that is rescaled
pinnedScalar(region, location) ==
    supportScalar(location,
                  Restrict(get_support(region), regionAxes(region) \cap DOMAIN location))

\* a rescaled region: PeakCoord of every pinned axis with influence set to 0
nullPinnedPeaks(region, pinnedAxes) ==
    [i \in 1..Len(region) |->
        IF fvarAxes[i].axisTag \in regionAxes(region) \cap pinnedAxes
        THEN <<region[i][1], Zero, region[i][3]>>
        ELSE region[i]]

\* the new region list: kept and rescaled regions in their order
newRegionList(regions, location) ==
    LET pinnedAxes == DOMAIN location
        out == [i \in 1..Len(regions) |->
                   IF regionClass(regions[i], pinnedAxes) = "rescale"
                   THEN nullPinnedPeaks(regions[i], pinnedAxes)
                   ELSE regions[i]]
    IN  SelectIdx(out, [i \in 1..Len(regions) |->
                           regionClass(regions[i], pinnedAxes) # "drop"], 1)

\* bisect.bisect_left(sortedSet, x): the number of elements smaller than x
bisect_left(sortedSet, x) == Cardinality({r \in sortedSet : r < x})

\* the local slot of a region in a VarData: varRegionIndexMapping[regionIndex];
\* 0 where the lookup raises KeyError.  Region indices count from 0,
\* slots from 1.
slotOf(vardata, regionIndex) ==
    IF \E k \in 1..Len(vardata.VarRegionIndex) : vardata.VarRegionIndex[k] = regionIndex
    THEN CHOOSE k \in 1..Len(vardata.VarRegionIndex) :
            /\ vardata.VarRegionIndex[k] = regionIndex
            /\ \A j \in (k + 1)..Len(vardata.VarRegionIndex) :
                    vardata.VarRegionIndex[j] # regionIndex
    ELSE 0

RECURSIVE applyScalars(_, _, _, _)
\* lines 240-244: the rescaled regions in increasing index order; stops at
\* the first region the VarData does not reference
applyScalars(vardata, mapping, todo, scalarOf) ==
    IF todo = {} THEN [vardata |-> vardata, err |-> "none"]
    ELSE LET r == CHOOSE x \in todo : \A y \in todo : x <= y
             slot == mapping[r]
         IN  IF slot = 0 THEN [vardata |-> vardata, err |-> "KeyError"]
             ELSE applyScalars(
                    [vardata EXCEPT !.Item =
                        [n \in 1..Len(vardata.Item) |->
                            [k \in 1..Len(vardata.Item[n]) |->
                                IF k = slot
                                THEN otRound(RMul(R(vardata.Item[n][k]), scalarOf[r]))
                                ELSE vardata.Item[n][k]]]],
                    mapping, todo \ {r}, scalarOf)

\* lines 246-265: delete the removed regions' deltas, renumber VarRegionIndex
removeRegions(vardata, mapping, regionsToBeRemoved) ==
    LET slots == {mapping[r] : r \in regionsToBeRemoved}
        keep == [k \in 1..Len(vardata.VarRegionIndex) |-> k \notin slots]
        vri == vardata.VarRegionIndex
    IN  IF 0 \in slots THEN [vardata |-> vardata, err |-> "KeyError"]
        ELSE [vardata |->
                [VarRegionIndex |->
                    SelectIdx([k \in 1..Len(vri) |-> vri[k] - bisect_left(regionsToBeRemoved, vri[k])],
                              [k \in 1..Len(vri) |-> vri[k] \notin regionsToBeRemoved], 1),
                 Item |-> [n \in 1..Len(vardata.Item) |->
                              SelectIdx(vardata.Item[n], keep, 1)]],
              err |-> "none"]

\* the body of the loop over table.VarStore.VarData for one VarData
rewriteVarData(vardata, rescaled, scalarOf, regionsToBeRemoved) ==
    LET mapping == [r \in rescaled \cup regionsToBeRemoved |-> slotOf(vardata, r)]
        scaled == applyScalars(vardata, mapping, rescaled, scalarOf)
    IN  IF scaled.err # "none" THEN scaled
        ELSE IF regionsToBeRemoved # {}
        THEN removeRegions(scaled.vardata, mapping, regionsToBeRemoved)
        ELSE scaled

RECURSIVE rewriteAllVarData(_, _, _, _, _)
\* the loop over table.VarStore.VarData; an exception leaves the later
\* VarData as they were
rewriteAllVarData(varData, k, rescaled, scalarOf, regionsToBeRemoved) ==
    IF k > Len(varData) THEN [VarData |-> varData, err |-> "none"]
    ELSE LET r == rewriteVarData(varData[k], rescaled, scalarOf, regionsToBeRemoved)
             vd2 == [varData EXCEPT ![k] = r.vardata]
         IN  IF r.err # "none" THEN [VarData |-> vd2, err |-> r.err]
             ELSE rewriteAllVarData(vd2, k + 1, rescaled, scalarOf, regionsToBeRemoved)

\* returns the font and the exception raised ("none" when it returns)
instantiateItemVariationStore(font, tableName, location) ==
    LET store == font[tableName].VarStore
        regions == store.Region
        pinnedAxes == DOMAIN location
        \* region indices count from 0
        rescaled == {i - 1 : i \in {j \in 1..Len(regions) :
                                      regionClass(regions[j], pinnedAxes) = "rescale"}}
        regionsToBeRemoved == {i - 1 : i \in {j \in 1..Len(regions) :
                                      regionClass(regions[j], pinnedAxes) = "drop"}}
        scalarOf == [r \in rescaled |-> pinnedScalar(regions[r + 1], location)]
        newRegions == newRegionList(regions, location)
        f2 == [font EXCEPT ![tableName].VarStore.Region = newRegions]
        vd == rewriteAllVarData(store.VarData, 1, rescaled, scalarOf, regionsToBeRemoved)
    IN  IF newRegions = <<>> THEN [font |-> deleteTable(f2, tableName), err |-> "none"]
        ELSE IF rescaled \cup regionsToBeRemoved = {} THEN [font |-> f2, err |-> "none"]
        ELSE [font |-> [f2 EXCEPT ![tableName].VarStore.VarData = vd.VarData],
              err |-> vd.err]

-----------------------------------------------------------------------------
(* MVAR *)

\* fontTools.varLib.mvar.MVAR_ENTRIES: value tag -> metric field
MVAR_ENTRIES ==
    [t \in {"hasc", "undo"} |-> IF t = "hasc" THEN "sTypoAscender" ELSE "underlinePosition"]

\* VarStoreInstancer[varIdx]: varIdx is <<major, minor>> (outer, inner index)
varStoreDelta(store, location, varIdx) ==
    LET vardata == store.VarData[varIdx[1] + 1]
        item == vardata.Item[varIdx[2] + 1]
    IN  RSum([k \in 1..Len(item) |->
                RMul(R(item[k]),
                     supportScalar(location,
                                   get_support(store.Region[vardata.VarRegionIndex[k] + 1])))])

\* the regions a VarData references exist (self._regions[regionIdx] raises
\* IndexError otherwise)
regionsExist(store, varIdx) ==
    \A k \in DOMAIN store.VarData[varIdx[1] + 1].VarRegionIndex :
        store.VarData[varIdx[1] + 1].VarRegionIndex[k] < Len(store.Region)

RECURSIVE mvarLoop(_, _, _, _, _)
\* the loop of setMvarDeltas over records[k..]
mvarLoop(records, k, store, location, metrics) ==
    IF k > Len(records) THEN [metrics |-> metrics, err |-> "none"]
    ELSE LET rec == records[k]
             delta == otRound(varStoreDelta(store, location, rec.VarIdx))
         IN  IF rec.ValueTag \notin DOMAIN MVAR_ENTRIES
             THEN mvarLoop(records, k + 1, store, location, metrics)
             ELSE IF ~regionsExist(store, rec.VarIdx)
             THEN [metrics |-> metrics, err |-> "IndexError"]
             ELSE IF delta = 0
             THEN mvarLoop(records, k + 1, store, location, metrics)
             ELSE mvarLoop(records, k + 1, store, location,
                           [metrics EXCEPT ![MVAR_ENTRIES[rec.ValueTag]] = @ + delta])

\* the deltas read from the store after its rewrite
setMvarDeltas_afterRewrite(font, location) ==
    LET w == instantiateItemVariationStore(font, "MVAR", location)
        r == mvarLoop(font.MVAR.ValueRecord, 1, w.font.MVAR.VarStore, location, font.metrics)
    IN  IF w.err = "none" /\ "MVAR" \in w.font.tables
        THEN [font |-> [font EXCEPT !.metrics = r.metrics], err |-> r.err]
        ELSE [font |-> font, err |-> "none"]

\* returns the font and the exception raised ("none" when it returns)
setMvarDeltas(font, location) ==
    LET r == mvarLoop(font.MVAR.ValueRecord, 1, font.MVAR.VarStore, location, font.metrics)
    IN  [font |-> [font EXCEPT !.metrics = r.metrics], err |-> r.err]

-----------------------------------------------------------------------------
(* Feature variations (GSUB, GPOS) *)

RECURSIVE conditionLoop(_, _, _, _)
\* the loop over record.ConditionSet.ConditionTable; acc holds retainRecord,
\* applies and newCondtitions
conditionLoop(conditions, k, location, acc) ==
    IF k > Len(conditions) THEN acc
    ELSE LET condition == conditions[k]
             axisTag == fvarAxes[condition.AxisIndex + 1].axisTag
         IN  IF condition.Format = 1 /\ axisTag \in DOMAIN location
             THEN IF RLe(condition.FilterRangeMinValue, location[axisTag])
                     /\ RLe(location[axisTag], condition.FilterRangeMaxValue)
                  THEN conditionLoop(conditions, k + 1, location, acc)
                  ELSE [acc EXCEPT !.retainRecord = FALSE]
             ELSE conditionLoop(conditions, k + 1, location,
                                [acc EXCEPT !.applies = FALSE,
                                            !.newCondtitions = Append(@, condition)])

RECURSIVE spliceSubstitutions(_, _, _)
\* FeatureList.FeatureRecord[rec.FeatureIndex].Feature = rec.Feature, in order
spliceSubstitutions(featureList, subst, k) ==
    IF k > Len(subst) THEN featureList
    ELSE spliceSubstitutions([featureList EXCEPT ![subst[k].FeatureIndex + 1] = subst[k].Feature],
                             subst, k + 1)

RECURSIVE recordLoop(_, _, _)
\* the loop over variations.FeatureVariationRecord; acc holds the records
\* (mutated in place), newRecords, FeatureList, featureVariationApplied, err
recordLoop(k, location, acc) ==
    IF k > Len(acc.records) THEN acc
    ELSE
      LET record == acc.records[k]
          c == conditionLoop(record.ConditionSet, 1, location,
                             [retainRecord |-> TRUE, applies |-> TRUE, newCondtitions |-> <<>>])
          retained == c.retainRecord /\ c.newCondtitions # <<>>
          record2 == IF retained THEN [record EXCEPT !.ConditionSet = c.newCondtitions]
                     ELSE record
          a1 == [acc EXCEPT !.records[k] = record2,
                            !.newRecords = IF retained THEN Append(@, record2) ELSE @]
      IN  IF c.applies /\ ~acc.featureVariationApplied
          THEN IF record.FeatureTableSubstitution.Version # 65536
               THEN [a1 EXCEPT !.err = "AssertionError"]
               ELSE recordLoop(k + 1, location,
                      [a1 EXCEPT !.FeatureList =
                                    spliceSubstitutions(@,
                                        record.FeatureTableSubstitution.SubstitutionRecord, 1),
                                 !.featureVariationApplied = TRUE])
          ELSE recordLoop(k + 1, location, a1)

\* returns the font and the exception raised ("none" when it returns)
instantiateFeatureVariationStore(font, tableName, location) ==
    LET table == font[tableName]
        res == recordLoop(1, location,
                          [records |-> table.FeatureVariations,
                           newRecords |-> <<>>,
                           FeatureList |-> table.FeatureList,
                           featureVariationApplied |-> FALSE,
                           err |-> "none"])
    IN  IF ~table.hasFeatureVariations THEN [font |-> font, err |-> "none"]
        ELSE IF res.err # "none"
        THEN [font |-> [font EXCEPT ![tableName].FeatureVariations = res.records,
                                    ![tableName].FeatureList = res.FeatureList],
              err |-> res.err]
        ELSE [font |-> [font EXCEPT ![tableName].FeatureVariations = res.newRecords,
                                    ![tableName].FeatureList = res.FeatureList],
              err |-> "none"]

-----------------------------------------------------------------------------
(* Normalization *)

isTuple(value) == Len(value) = 3

\* a (low, high) pair is <<low, high, "range">>; a number is a rational
rangeLimit(low, high) == <<low, high, "range">>

normalize(value, triple, avar_mapping) ==
    LET v == normalizeValue(value, triple)
    IN  floatToFixedToFloat(IF avar_mapping # {} THEN piecewiseLinearMap(v, avar_mapping) ELSE v, 14)

axisTriple(tag) ==
    LET a == fvarAxes[CHOOSE i \in 1..Len(fvarAxes) : fvarAxes[i].axisTag = tag]
    IN  <<a.minValue, a.defaultValue, a.maxValue>>

\* the axis_limits dictionary after normalizeAxisLimits; every key is an fvar axis
normalizedLimits(font, limits) ==
    [tag \in DOMAIN limits |->
        LET avar_mapping == IF "avar" \in font.tables THEN font.avar[tag] ELSE {}
            value == limits[tag]
        IN  IF isTuple(value)
            THEN rangeLimit(normalize(value[1], axisTriple(tag), avar_mapping),
                            normalize(value[2], axisTriple(tag), avar_mapping))
            ELSE normalize(value, axisTriple(tag), avar_mapping)]

\* "none" or the exception raised
sanityCheckVariableTables(font) ==
    IF "fvar" \notin font.tables THEN "ValueError"
    ELSE IF "gvar" \in font.tables /\ "glyf" \notin font.tables THEN "ValueError"
    ELSE "none"

\* a check that lets every limit through
hasRangeLimit_never(limits) == FALSE

\* line 364: any(isinstance(v, tuple) for v in axis_limits.values())
hasRangeLimit(limits) == \E tag \in DOMAIN limits : isTuple(limits[tag])

-----------------------------------------------------------------------------
(* instantiateVariableFont *)

MaxCalls == 2

Terminal == pc \in {"done", "error"}

\* the instancer's font object changes; the caller's object is the same
\* object when inplace, and a deep copy was taken from it otherwise
Mutate(f) ==
    /\ varfont' = f
    /\ callerFont' = IF inplace THEN f ELSE callerFont

NoError == [exc |-> "none", at |-> "none", pc |-> "none"]

\* an exception leaves instantiateVariableFont; err keeps where it was raised
Raise(e, where) == pc' = "error" /\ err' = [exc |-> e, at |-> where, pc |-> pc]

\* line 355
SanityCheck ==
    /\ pc = "call"
    /\ IF sanityCheckVariableTables(varfont) # "none"
       THEN Raise(sanityCheckVariableTables(varfont), "sanityCheckVariableTables")
       ELSE pc' = "normalize" /\ err' = err
    /\ UNCHANGED <<varfont, callerFont, font0, axis_limits, limits0, inplace,
                   glyphnames, processed, results>>

\* lines 357-359: deepcopy unless inplace, then normalizeAxisLimits
Normalize ==
    /\ pc = "normalize"
    /\ IF DOMAIN axis_limits \ Tags # {}
       THEN Raise("ValueError", "normalizeAxisLimits") /\ axis_limits' = axis_limits
       ELSE /\ axis_limits' = normalizedLimits(varfont, axis_limits)
            /\ pc' = "rangeCheck"
            /\ err' = err
    /\ UNCHANGED <<varfont, callerFont, font0, limits0, inplace,
                   glyphnames, processed, results>>

\* lines 364-365
RangeCheck ==
    /\ pc = "rangeCheck"
    /\ IF hasRangeLimit(axis_limits)
       THEN Raise("NotImplementedError", "instantiateVariableFont")
       ELSE pc' = "gvar" /\ err' = err
    /\ UNCHANGED <<varfont, callerFont, font0, axis_limits, limits0, inplace,
                   glyphnames, processed, results>>

\* lines 367-368 and 83-97: instantiateGvar up to its loop
Gvar ==
    /\ pc = "gvar"
    /\ IF "gvar" \in varfont.tables
       THEN LET names == sortedByKey(varfont.glyf, DOMAIN varfont.gvar)
            IN  /\ glyphnames' = names
                /\ pc' = IF names = <<>> THEN "cvar" ELSE "gvarGlyph"
       ELSE glyphnames' = <<>> /\ pc' = "cvar"
    /\ processed' = <<>>
    /\ UNCHANGED <<varfont, callerFont, font0, axis_limits, limits0, inplace, err, results>>

\* lines 98-99: one turn of instantiateGvar's loop
GvarGlyph ==
    /\ pc = "gvarGlyph"
    /\ Mutate(instantiateGvarGlyph(varfont, axis_limits, Head(glyphnames)))
    /\ processed' = Append(processed, Head(glyphnames))
    /\ glyphnames' = Tail(glyphnames)
    /\ pc' = IF Tail(glyphnames) = <<>> THEN "cvar" ELSE "gvarGlyph"
    /\ UNCHANGED <<font0, axis_limits, limits0, inplace, err, results>>

\* lines 370-371
Cvar ==
    /\ pc = "cvar"
    /\ Mutate(IF "cvar" \in varfont.tables THEN instantiateCvar(varfont, axis_limits)
              ELSE varfont)
    /\ pc' = "mvar"
    /\ UNCHANGED <<font0, axis_limits, limits0, inplace, err, glyphnames, processed, results>>

\* lines 373-374 and 169: instantiateMvar's first step
MvarDeltas ==
    /\ pc = "mvar"
    /\ IF "MVAR" \in varfont.tables
       THEN LET r == setMvarDeltas(varfont, axis_limits)
            IN  /\ Mutate(r.font)
                /\ IF r.err # "none" THEN Raise(r.err, "setMvarDeltas")
                   ELSE pc' = "mvarStore" /\ err' = err
       ELSE Mutate(varfont) /\ pc' = "gsub" /\ err' = err
    /\ UNCHANGED <<font0, axis_limits, limits0, inplace, glyphnames, processed, results>>

\* line 171: instantiateMvar's second step
MvarStore ==
    /\ pc = "mvarStore"
    /\ LET r == instantiateItemVariationStore(varfont, "MVAR", axis_limits)
       IN  /\ Mutate(r.font)
           /\ IF r.err # "none" THEN Raise(r.err, "instantiateItemVariationStore") ELSE pc' = "gsub" /\ err' = err
    /\ UNCHANGED <<font0, axis_limits, limits0, inplace, glyphnames, processed, results>>

\* lines 376-377
Gsub ==
    /\ pc = "gsub"
    /\ LET r == IF "GSUB" \in varfont.tables
                THEN instantiateFeatureVariationStore(varfont, "GSUB", axis_limits)
                ELSE [font |-> varfont, err |-> "none"]
       IN  /\ Mutate(r.font)
           /\ IF r.err # "none" THEN Raise(r.err, "instantiateFeatureVariationStore") ELSE pc' = "gpos" /\ err' = err
    /\ UNCHANGED <<font0, axis_limits, limits0, inplace, glyphnames, processed, results>>

\* lines 379-380
Gpos ==
    /\ pc = "gpos"
    /\ LET r == IF "GPOS" \in varfont.tables
                THEN instantiateFeatureVariationStore(varfont, "GPOS", axis_limits)
                ELSE [font |-> varfont, err |-> "none"]
       IN  /\ Mutate(r.font)
           /\ IF r.err # "none" THEN Raise(r.err, "instantiateFeatureVariationStore") ELSE pc' = "hvar" /\ err' = err
    /\ UNCHANGED <<font0, axis_limits, limits0, inplace, glyphnames, processed, results>>

\* lines 383-385: del varfont["HVAR"]; return varfont
Hvar ==
    /\ pc = "hvar"
    /\ IF "HVAR" \in varfont.tables
       THEN Mutate(deleteTable(varfont, "HVAR")) /\ pc' = "done" /\ err' = err
       ELSE Mutate(varfont) /\ Raise("KeyError", "instantiateVariableFont")
    /\ UNCHANGED <<font0, axis_limits, limits0, inplace, glyphnames, processed, results>>

\* the caller calls instantiateVariableFont again with the same font object
\* and the same axis_limits object
CallAgain ==
    /\ Terminal
    /\ Len(results) + 1 < MaxCalls
    /\ results' = Append(results, [err |-> err, font |-> varfont])
    /\ pc' = "call"
    /\ err' = NoError
    /\ varfont' = callerFont
    /\ font0' = callerFont
    /\ limits0' = axis_limits
    /\ glyphnames' = <<>>
    /\ processed' = <<>>
    /\ UNCHANGED <<callerFont, axis_limits, inplace>>

Next ==
    \/ SanityCheck
    \/ Normalize
    \/ RangeCheck
    \/ Gvar
    \/ GvarGlyph
    \/ Cvar
    \/ MvarDeltas
    \/ MvarStore
    \/ Gsub
    \/ Gpos
    \/ Hvar
    \/ CallAgain

-----------------------------------------------------------------------------
(* Input fonts and calls *)

SeqsUpTo(S, n) == UNION {[1..k -> S] : k \in 0..n}

EmptyLayout ==
    [FeatureList |-> <<"f0", "f1">>, FeatureVariations |-> <<>>, hasFeatureVariations |-> FALSE]

Up == <<Zero, One, One>>            \* peak at +1
Down == <<R(-1), R(-1), Zero>>      \* peak at -1
Mid == <<Zero, Rat(1, 2), One>>     \* intermediate peak at 1/2
NoEffect == <<Zero, Zero, Zero>>    \* axis without influence in a region

SimpleGlyph ==
    [coordinates |-> <<R(0), R(5), R(10)>>, endPts |-> <<3>>, components |-> <<>>]

\* a small variable font with every table the instancer reads; the input
\* sets below vary one table of it at a time
BaseFont ==
    [tables |-> {"fvar", "glyf", "gvar", "cvt ", "cvar", "MVAR", "GSUB", "GPOS", "HVAR"},
     avar |-> [t \in Tags |-> {}],
     glyf |-> <<SimpleGlyph>>,
     gvar |-> << <<[axes |-> [t \in {"wght"} |-> Up],
                    coordinates |-> <<R(1), R(2), R(3)>>]>> >>,
     cvt |-> <<10, 20>>,
     cvar |-> <<[axes |-> [t \in {"wght"} |-> Up], coordinates |-> <<R(4), None>>]>>,
     MVAR |-> [VarStore |-> [Region |-> <<<<Up, NoEffect>>>>,
                             VarData |-> <<[VarRegionIndex |-> <<0>>, Item |-> <<<<7>>>>]>>],
               ValueRecord |-> <<[ValueTag |-> "hasc", VarIdx |-> <<0, 0>>]>>],
     metrics |-> [sTypoAscender |-> 800, underlinePosition |-> -100],
     GSUB |-> EmptyLayout,
     GPOS |-> EmptyLayout]

\* user-space pin values: wght 400, 650, 900 normalize to 0, 1/2, 1 and
\* wdth 50, 75, 100 to -1, -1/2, 0
UserValues ==
    [t \in Tags |-> IF t = "wght" THEN {R(400), R(650), R(900)}
                    ELSE {R(50), R(75), R(100)}]

PinLimits ==
    UNION {{f \in [S -> UNION {UserValues[t] : t \in Tags}] : \A t \in S : f[t] \in UserValues[t]}
           : S \in SUBSET Tags}

\* normalized coordinates at which the output is compared with the input
NormValues == {R(-1), Rat(-1, 2), Zero, Rat(1, 2), One}

InitWith(fonts, limits, inplaces) ==
    /\ varfont \in fonts
    /\ callerFont = varfont
    /\ font0 = varfont
    /\ axis_limits \in limits
    /\ limits0 = axis_limits
    /\ inplace \in inplaces
    /\ pc = "call"
    /\ err = NoError
    /\ glyphnames = <<>>
    /\ processed = <<>>
    /\ results = <<>>

(* gvar inputs: one simple glyph of one contour, up to MaxTuples tuples *)

MaxTuples == 2

TupleSupports ==
    { [t \in {"wdth"} |-> Down],
      [t \in {"wght"} |-> Up],
      [t \in {"wght"} |-> Mid],
      [t \in Tags |-> IF t = "wght" THEN Up ELSE Down] }

GvarDeltas ==
    { <<R(0), R(4), R(0)>>, <<R(0), None, R(10)>>, <<R(3), R(3), R(-2)>> }

GvarTuples == {[axes |-> a, coordinates |-> d] : a \in TupleSupports, d \in GvarDeltas}

GvarFonts(maxTuples) == {[BaseFont EXCEPT !.gvar = <<v>>] : v \in SeqsUpTo(GvarTuples, maxTuples)}

InitGvar == InitWith(GvarFonts(MaxTuples), PinLimits, {TRUE})
SpecGvar == InitGvar /\ [][Next]_vars

(* cvar inputs: up to MaxTuples tuples over a cvt of two values *)

CvarDeltas == { <<R(5), None>>, <<R(3), R(-3)>> }

CvarTuples == {[axes |-> a, coordinates |-> d] : a \in TupleSupports, d \in CvarDeltas}

CvarFonts(maxTuples) == {[BaseFont EXCEPT !.cvar = v] : v \in SeqsUpTo(CvarTuples, maxTuples)}

InitCvar == InitWith(CvarFonts(MaxTuples), PinLimits, {TRUE})

(* MVAR inputs: 1..MaxRegions distinct regions, one or two VarData that each
   reference any subset of them, two items per VarData *)

MaxRegions == 2

StoreRegions == { <<Up, NoEffect>>, <<NoEffect, Down>>, <<Up, Down>> }

RegionLists(maxRegions) ==
    {r \in UNION {[1..n -> StoreRegions] : n \in 1..maxRegions} :
        \A i, j \in DOMAIN r : i # j => r[i] # r[j]}

\* the VarRegionIndex lists over n regions: every subset in increasing order,
\* and all of them in decreasing order
RegionIndexLists(n) ==
    {SelectIdx([i \in 1..n |-> i - 1], [i \in 1..n |-> i \in S], 1) : S \in SUBSET (1..n)}
        \cup {[i \in 1..n |-> n - i]}

\* distinct deltas, so that a delta that moves to another region shows
itemDelta(block, item, regionIndex) ==
    (IF regionIndex % 2 = 0 THEN 1 ELSE -1) * (5 + 10 * regionIndex) + 100 * (block - 1) + 2 * (item - 1)

VarDataOf(block, vri) ==
    [VarRegionIndex |-> vri,
     Item |-> [n \in 1..2 |-> [k \in 1..Len(vri) |-> itemDelta(block, n, vri[k])]]]

VarDataLists(n) ==
    {<<VarDataOf(1, a)>> : a \in RegionIndexLists(n)}
        \cup {<<VarDataOf(1, a), VarDataOf(2, b)>> : a \in RegionIndexLists(n), b \in RegionIndexLists(n)}

ValueRecordLists(nVarData) ==
    { <<[ValueTag |-> "hasc", VarIdx |-> <<0, 0>>],
        [ValueTag |-> "zzzz", VarIdx |-> <<0, 1>>]>>,
      <<[ValueTag |-> "undo", VarIdx |-> <<nVarData - 1, 1>>],
        [ValueTag |-> "hasc", VarIdx |-> <<0, 1>>]>> }

StoreFonts(maxRegions) ==
    {[BaseFont EXCEPT !.MVAR = [VarStore |-> [Region |-> r, VarData |-> d], ValueRecord |-> v]]
        : r \in RegionLists(maxRegions), d \in UNION {VarDataLists(n) : n \in 1..maxRegions},
          v \in ValueRecordLists(1) \cup ValueRecordLists(2)}

WellFormedInput(font) ==
    LET store == font.MVAR.VarStore
    IN  /\ \A b \in DOMAIN store.VarData :
              \A k \in DOMAIN store.VarData[b].VarRegionIndex :
                  store.VarData[b].VarRegionIndex[k] < Len(store.Region)
        /\ \A v \in DOMAIN font.MVAR.ValueRecord :
              font.MVAR.ValueRecord[v].VarIdx[1] < Len(store.VarData)

InitStore == InitWith({f \in StoreFonts(MaxRegions) : WellFormedInput(f)}, PinLimits, {TRUE})
SpecStore == InitStore /\ [][Next]_vars

\* gvar, cvar and item variation store inputs together
SpecTuples == (InitGvar \/ InitCvar \/ InitStore) /\ [][Next]_vars

(* Feature variation inputs: up to MaxRecords records of up to two conditions *)

MaxRecords == 2

Conditions ==
    { [Format |-> 1, AxisIndex |-> 0,
       FilterRangeMinValue |-> Rat(1, 2), FilterRangeMaxValue |-> One],
      [Format |-> 1, AxisIndex |-> 1,
       FilterRangeMinValue |-> R(-1), FilterRangeMaxValue |-> Rat(-1, 2)],
      [Format |-> 2, AxisIndex |-> 0,
       FilterRangeMinValue |-> Zero, FilterRangeMaxValue |-> Zero] }

\* the substitutions of the k-th record: each record substitutes features of its own
SubstitutionsOf(k) ==
    IF k = 1 THEN <<[FeatureIndex |-> 0, Feature |-> "a0"]>>
    ELSE <<[FeatureIndex |-> 1, Feature |-> "b1"], [FeatureIndex |-> 0, Feature |-> "b0"]>>

RecordShapes ==
    {[ConditionSet |-> c, Version |-> 65536] : c \in SeqsUpTo(Conditions, 2)}
        \cup {[ConditionSet |-> <<>>, Version |-> 65537]}

FeatureVariationLists(maxRecords) ==
    {[k \in 1..Len(shapes) |->
        [ConditionSet |-> shapes[k].ConditionSet,
         FeatureTableSubstitution |->
            [Version |-> shapes[k].Version,
             SubstitutionRecord |-> SubstitutionsOf(IF k = 1 THEN 1 ELSE 2)]]]
     : shapes \in SeqsUpTo(RecordShapes, maxRecords)}

FeatureFonts(maxRecords) ==
    {[BaseFont EXCEPT !.GSUB = [FeatureList |-> <<"f0", "f1">>,
                                FeatureVariations |-> v,
                                hasFeatureVariations |-> TRUE]]
        : v \in FeatureVariationLists(maxRecords)}

InitFeatures == InitWith(FeatureFonts(MaxRecords), PinLimits, {TRUE})
SpecFeatures == InitFeatures /\ [][Next]_vars

(* Glyph order inputs: MaxGlyphs glyphs, each simple or a composite of other
   glyphs, without cycles; any of them in gvar *)

MaxGlyphs == 3

GlyphNames(maxGlyphs) == 1..maxGlyphs

RECURSIVE ReachableIn(_, _, _)
\* the glyphs reached from those of S in at most k steps along components
ReachableIn(comps, S, k) ==
    IF k = 0 THEN S
    ELSE ReachableIn(comps, S \cup UNION {comps[n] : n \in S}, k - 1)

\* no glyph is a component of itself, directly or transitively
Acyclic(comps) ==
    \A n \in DOMAIN comps : n \notin ReachableIn(comps, comps[n], Cardinality(DOMAIN comps))

GlyphOf(componentSet) ==
    IF componentSet = {} THEN [coordinates |-> <<R(0), R(10)>>, endPts |-> <<2>>, components |-> <<>>]
    ELSE LET cs == SetToSeq(componentSet)
         IN  [coordinates |-> [i \in 1..Len(cs) |-> R(i)],
              endPts |-> [i \in 1..Len(cs) |-> i],
              components |-> cs]

\* one tuple on wdth: pinned, it moves every coordinate of the glyph
OrderTuple(glyph) ==
    <<[axes |-> [t \in {"wdth"} |-> Down],
       coordinates |-> [i \in 1..Len(glyph.coordinates) |-> R(2)]]>>

\* every acyclic composition of the glyphs; gvar holds all of them, or all but one
OrderFonts(maxGlyphs) ==
    {[BaseFont EXCEPT !.glyf = [n \in GlyphNames(maxGlyphs) |-> GlyphOf(comps[n])],
                      !.gvar = [n \in keys |-> OrderTuple(GlyphOf(comps[n]))]]
        : comps \in {c \in [GlyphNames(maxGlyphs) -> SUBSET GlyphNames(maxGlyphs)] : Acyclic(c)},
          keys \in {GlyphNames(maxGlyphs) \ S : S \in {{}} \cup {{n} : n \in GlyphNames(maxGlyphs)}}}

OrderLimits == {f \in PinLimits : DOMAIN f \subseteq {"wdth"} /\ \A t \in DOMAIN f : f[t] # R(100)}

InitOrder == InitWith(OrderFonts(MaxGlyphs), OrderLimits, {TRUE})
SpecOrder == InitOrder /\ [][Next]_vars

(* Whole-call inputs: fonts with and without each table, pins, ranges and
   an axis that fvar does not declare *)

WghtAvar == {<<R(-1), R(-1)>>, <<Zero, Zero>>, <<Rat(1, 2), Rat(1, 4)>>, <<One, One>>}

FvarChoices == {{"fvar"}, {}}
HvarChoices == {{"HVAR"}, {}}
AvarChoices == {{"avar"}, {}}
GlyphChoices == {{"glyf", "gvar"}, {"gvar"}, {}}
CvarChoices == {"tuples", "empty", "absent"}
MvarChoices == {"regions", "empty", "absent"}
GsubChoices == {"conditions", "unconditional", "absent"}

ApiFont(fv, hv, av, gl, cv, mv, gs) ==
    [BaseFont EXCEPT
        !.tables = fv \cup hv \cup av \cup gl \cup {"cvt ", "GPOS"}
                      \cup (IF cv = "absent" THEN {} ELSE {"cvar"})
                      \cup (IF mv = "absent" THEN {} ELSE {"MVAR"})
                      \cup (IF gs = "absent" THEN {} ELSE {"GSUB"}),
        !.avar = [t \in Tags |-> IF t = "wght" THEN WghtAvar ELSE {}],
        !.cvar = IF cv = "empty" THEN <<>> ELSE @,
        !.MVAR = IF mv = "empty"
                 THEN [VarStore |-> [Region |-> <<>>, VarData |-> <<>>], ValueRecord |-> <<>>]
                 ELSE @,
        !.GSUB = [FeatureList |-> <<"f0", "f1">>,
                  hasFeatureVariations |-> TRUE,
                  FeatureVariations |->
                      <<[ConditionSet |-> IF gs = "unconditional" THEN <<>>
                                          ELSE <<CHOOSE c \in Conditions : c.AxisIndex = 1>>,
                         FeatureTableSubstitution |->
                            [Version |-> 65536, SubstitutionRecord |-> SubstitutionsOf(1)]]>>]]

ApiFonts ==
    {ApiFont(fv, hv, av, gl, cv, mv, gs) :
        fv \in FvarChoices, hv \in HvarChoices, av \in AvarChoices, gl \in GlyphChoices,
        cv \in CvarChoices, mv \in MvarChoices, gs \in GsubChoices}

ApiLimits ==
    { <<>>,
      [t \in {"wght"} |-> R(900)],
      [t \in {"wght"} |-> R(500)],
      [t \in Tags |-> IF t = "wght" THEN R(650) ELSE R(75)],
      [t \in {"wght"} |-> rangeLimit(R(400), R(900))],
      [t \in {"wght"} |-> rangeLimit(R(900), R(1000))],
      [t \in Tags |-> IF t = "wght" THEN rangeLimit(R(100), R(400)) ELSE R(75)],
      [t \in {"opsz"} |-> R(10)] }

InitApi == InitWith(ApiFonts, ApiLimits, BOOLEAN)
SpecApi == InitApi /\ [][Next]_vars

\* every input set
Init == InitGvar \/ InitCvar \/ InitStore \/ InitFeatures \/ InitOrder \/ InitApi
Spec == Init /\ [][Next]_vars

-----------------------------------------------------------------------------
(* Evaluating a font *)

\* the deltas of a tuple as a renderer reads them: untouched points are
\* inferred against the font's own base outline
tupleDeltas(var, glyph) ==
    IF \E i \in 1..Len(var.coordinates) : var.coordinates[i] = None
    THEN iup_delta(var.coordinates, glyph.coordinates, glyph.endPts)
    ELSE var.coordinates

RECURSIVE sumTuples(_, _, _, _)
sumTuples(variations, k, glyph, loc) ==
    IF k > Len(variations) THEN glyph.coordinates
    ELSE addCoordinates(sumTuples(variations, k + 1, glyph, loc),
                        scaleCoordinates(tupleDeltas(variations[k], glyph),
                                         supportScalar(loc, variations[k].axes)))

\* the outline of a glyph at a location: base coordinates plus the sum over
\* the glyph's tuples of scalar x deltas
OutlineAt(font, glyphname, loc) ==
    sumTuples(font.gvar[glyphname], 1, font.glyf[glyphname], loc)

\* the locations on the axes a pinned location leaves
SurvivingLocations(L) == [Tags \ DOMAIN L -> NormValues]

\* M union L
Merge(M, L) == [t \in DOMAIN M \cup DOMAIN L |-> IF t \in DOMAIN L THEN L[t] ELSE M[t]]

StageOrder ==
    <<"call", "normalize", "rangeCheck", "gvar", "gvarGlyph", "cvar", "mvar", "mvarStore",
      "gsub", "gpos", "hvar", "done">>

StageIndex(p) == CHOOSE i \in DOMAIN StageOrder : StageOrder[i] = p

\* the step the current call has got to: the step that raised, after an exception
progress == IF pc = "error" THEN err.pc ELSE pc

\* the step has run in the current call (to its end, or to an exception)
Ran(stage) ==
    \/ StageIndex(progress) > StageIndex(stage)
    \/ pc = "error" /\ err.pc = stage

\* the pinned location is normalized and the tables are being instantiated
Instantiating == Ran("rangeCheck") /\ ~(pc = "error" /\ err.pc = "rangeCheck")

\* C1: for every glyph already instantiated and every location M on the
\* surviving axes, the outline of the output at M equals the outline of the
\* input at M union L
C1_GvarVisualEquivalence ==
    Instantiating =>
        \A g \in Range(processed) : \A M \in SurvivingLocations(axis_limits) :
            OutlineAt(varfont, g, M) = OutlineAt(font0, g, Merge(M, axis_limits))

\* the same property where every tuple that is kept untouched is dense (no
\* untouched points to infer against the rewritten base outline)
Dense(var) == \A i \in 1..Len(var.coordinates) : var.coordinates[i] # None

GvarVisualEquivalenceDense ==
    Instantiating =>
        \A g \in Range(processed) :
            (\A k \in 1..Len(font0.gvar[g]) :
                \/ Dense(font0.gvar[g][k])
                \/ DOMAIN font0.gvar[g][k].axes \cap DOMAIN axis_limits # {})
            => \A M \in SurvivingLocations(axis_limits) :
                  OutlineAt(varfont, g, M) = OutlineAt(font0, g, Merge(M, axis_limits))

-----------------------------------------------------------------------------
(* Tuples and regions after instancing *)

pinnedNow == DOMAIN axis_limits

NoPinnedAxis(variations) ==
    \A k \in 1..Len(variations) : DOMAIN variations[k].axes \cap pinnedNow = {}

NoPinnedPeak(regions) ==
    \A r \in 1..Len(regions) : \A i \in 1..Len(regions[r]) :
        fvarAxes[i].axisTag \in pinnedNow => regions[r][i][2] = Zero

\* C2: after instancing, no tuple retained in gvar or cvar has a pinned axis
\* among the keys of its axes, and no region retained in a rewritten item
\* variation store has a non-zero peak on a pinned axis
C2_NoPinnedAxisRemains ==
    /\ Instantiating =>
          \A g \in Range(processed) : NoPinnedAxis(varfont.gvar[g])
    /\ (Ran("gvarGlyph") /\ "gvar" \in varfont.tables) =>
          \A g \in DOMAIN varfont.gvar : NoPinnedAxis(varfont.gvar[g])
    /\ (Ran("cvar") /\ "cvar" \in varfont.tables) => NoPinnedAxis(varfont.cvar)
    /\ (Ran("mvarStore") /\ "MVAR" \in varfont.tables) =>
          NoPinnedPeak(varfont.MVAR.VarStore.Region)

\* a call that pinned wght has returned: a gvar tuple on both axes was kept
\* on wdth alone, rescaled
C2_Witness ==
    /\ pc = "done"
    /\ pinnedNow = {"wght"}
    /\ \E k \in 1..Len(font0.gvar[1]) : DOMAIN font0.gvar[1][k].axes = Tags
    /\ \E k \in 1..Len(varfont.gvar[1]) :
          /\ DOMAIN varfont.gvar[1][k].axes = {"wdth"}
          /\ varfont.gvar[1][k].coordinates = <<Rat(3, 2), Rat(3, 2), R(-1)>>

-----------------------------------------------------------------------------
(* The item variation store of MVAR *)

\* every item is as long as VarRegionIndex, and every VarRegionIndex entry
\* is an index into the region list
StoreWellFormed(store) ==
    \A b \in 1..Len(store.VarData) :
        LET vardata == store.VarData[b]
        IN  /\ \A n \in 1..Len(vardata.Item) : Len(vardata.Item[n]) = Len(vardata.VarRegionIndex)
            /\ \A k \in 1..Len(vardata.VarRegionIndex) :
                  vardata.VarRegionIndex[k] \in 0..(Len(store.Region) - 1)

\* the regions (indices from 0) that the pinned axes leave without influence
DroppedRegions(regions) ==
    {r \in 0..(Len(regions) - 1) :
        /\ regionAxes(regions[r + 1]) # {}
        /\ regionAxes(regions[r + 1]) \subseteq pinnedNow}

\* the call was given a well-formed MVAR store of which a region remains
StoreRewritten ==
    /\ "MVAR" \in font0.tables
    /\ StoreWellFormed(font0.MVAR.VarStore)
    /\ Ran("mvarStore")
    /\ DroppedRegions(font0.MVAR.VarStore.Region) # 0..(Len(font0.MVAR.VarStore.Region) - 1)

StoreRewriteCompleted == ~(pc = "error" /\ err.pc = "mvarStore")

\* C3: the rewrite of a well-formed store that leaves a region completes,
\* and then every item is as long as its VarData's VarRegionIndex and every
\* VarRegionIndex entry is an index into the rewritten region list
C3_StoreStaysWellFormed ==
    StoreRewritten =>
        /\ StoreRewriteCompleted
        /\ StoreWellFormed(varfont.MVAR.VarStore)

\* the slots of a VarData that reference regions that are not dropped
KeptSlots(vardata, dropped) ==
    {k \in 1..Len(vardata.VarRegionIndex) : vardata.VarRegionIndex[k] \notin dropped}

\* the regions of the input store are found again in the output: the new
\* region list is the regions not dropped, in their order, and every slot
\* that referenced one of them references it at its new index with its
\* delta (rescaled and rounded where the region has a pinned axis)
AssociationPreserved(old, new) ==
    LET dropped == DroppedRegions(old.Region)
        newIndex(r) == r - Cardinality({d \in dropped : d < r})
        mixed(r) == regionAxes(old.Region[r + 1]) \cap pinnedNow # {}
    IN  /\ Len(new.Region) = Len(old.Region) - Cardinality(dropped)
        /\ \A r \in (0..(Len(old.Region) - 1)) \ dropped :
              \A i \in 1..Len(old.Region[r + 1]) :
                  new.Region[newIndex(r) + 1][i] =
                      IF fvarAxes[i].axisTag \in pinnedNow
                      THEN <<old.Region[r + 1][i][1], Zero, old.Region[r + 1][i][3]>>
                      ELSE old.Region[r + 1][i]
        /\ Len(new.VarData) = Len(old.VarData)
        /\ \A b \in 1..Len(old.VarData) :
              LET ov == old.VarData[b]
                  nv == new.VarData[b]
                  kept == KeptSlots(ov, dropped)
                  newSlot(k) == Cardinality({j \in kept : j <= k})
              IN  /\ Len(nv.VarRegionIndex) = Cardinality(kept)
                  /\ Len(nv.Item) = Len(ov.Item)
                  /\ \A n \in 1..Len(ov.Item) : Len(nv.Item[n]) = Cardinality(kept)
                  /\ \A k \in kept :
                        /\ nv.VarRegionIndex[newSlot(k)] = newIndex(ov.VarRegionIndex[k])
                        /\ \A n \in 1..Len(ov.Item) :
                              nv.Item[n][newSlot(k)] =
                                  IF mixed(ov.VarRegionIndex[k])
                                  THEN otRound(RMul(R(ov.Item[n][k]),
                                                    pinnedScalar(old.Region[ov.VarRegionIndex[k] + 1],
                                                                 axis_limits)))
                                  ELSE ov.Item[n][k]

\* C10: the rewrite preserves the association between deltas and regions
C10_AssociationPreserved ==
    StoreRewritten =>
        /\ StoreRewriteCompleted
        /\ AssociationPreserved(font0.MVAR.VarStore, varfont.MVAR.VarStore)

\* the same for the calls in which the rewrite returns
AssociationPreservedOnReturn ==
    (StoreRewritten /\ StoreRewriteCompleted) =>
        /\ StoreWellFormed(varfont.MVAR.VarStore)
        /\ AssociationPreserved(font0.MVAR.VarStore, varfont.MVAR.VarStore)

RECURSIVE recordDeltas(_, _, _, _, _)
\* the sum of the rounded deltas of records[k..] whose tag names the field
recordDeltas(records, k, store, location, field) ==
    IF k > Len(records) THEN 0
    ELSE (IF /\ records[k].ValueTag \in DOMAIN MVAR_ENTRIES
             /\ MVAR_ENTRIES[records[k].ValueTag] = field
          THEN otRound(varStoreDelta(store, location, records[k].VarIdx))
          ELSE 0)
         + recordDeltas(records, k + 1, store, location, field)

\* C9: the deltas are read from the store as it was before the rewrite and
\* added, rounded, to the metric fields; unrecognized tags and zero deltas
\* change nothing; the store is rewritten afterwards, and MVAR is removed
\* exactly when no region remains
C9_MvarDeltasBeforeRewrite ==
    ("MVAR" \in font0.tables /\ StoreWellFormed(font0.MVAR.VarStore) /\ Ran("mvar")) =>
        /\ \A field \in DOMAIN font0.metrics :
              varfont.metrics[field] =
                  font0.metrics[field]
                    + recordDeltas(font0.MVAR.ValueRecord, 1, font0.MVAR.VarStore,
                                   axis_limits, field)
        /\ pc = "mvarStore" => varfont.MVAR = font0.MVAR
        /\ Ran("mvarStore") =>
              ("MVAR" \in varfont.tables
                  <=> DroppedRegions(font0.MVAR.VarStore.Region)
                        # 0..(Len(font0.MVAR.VarStore.Region) - 1))

\* a delta of 2.5 was rounded to 3 and added, and MVAR, left without a
\* region, was removed
C9_Witness ==
    /\ pc = "done"
    /\ "MVAR" \in font0.tables
    /\ "MVAR" \notin varfont.tables
    /\ \E field \in DOMAIN font0.metrics :
          /\ varfont.metrics[field] = font0.metrics[field] + 3
          /\ \E k \in 1..Len(font0.MVAR.ValueRecord) :
                /\ font0.MVAR.ValueRecord[k].ValueTag \in DOMAIN MVAR_ENTRIES
                /\ MVAR_ENTRIES[font0.MVAR.ValueRecord[k].ValueTag] = field
                /\ varStoreDelta(font0.MVAR.VarStore, axis_limits,
                                 font0.MVAR.ValueRecord[k].VarIdx) = Rat(5, 2)

-----------------------------------------------------------------------------
(* Feature variations of GSUB *)

\* the condition is a format-1 condition on a pinned axis
PinnedCondition(condition) ==
    /\ condition.Format = 1
    /\ fvarAxes[condition.AxisIndex + 1].axisTag \in pinnedNow

\* a pinned-axis format-1 condition has L[axis] outside [min, max]
Rejected(record) ==
    \E k \in 1..Len(record.ConditionSet) :
        LET condition == record.ConditionSet[k]
            v == axis_limits[fvarAxes[condition.AxisIndex + 1].axisTag]
        IN  /\ PinnedCondition(condition)
            /\ ~(RLe(condition.FilterRangeMinValue, v) /\ RLe(v, condition.FilterRangeMaxValue))

\* not rejected, and no condition survives
AppliesNow(record) ==
    /\ ~Rejected(record)
    /\ \A k \in 1..Len(record.ConditionSet) : PinnedCondition(record.ConditionSet[k])

\* FeatureList with the substitutions of the first record that applies now
ExpectedFeatureList(table) ==
    LET applying == {k \in 1..Len(table.FeatureVariations) : AppliesNow(table.FeatureVariations[k])}
        first == CHOOSE k \in applying : \A j \in applying : k <= j
    IN  IF applying = {} THEN table.FeatureList
        ELSE spliceSubstitutions(table.FeatureList,
                 table.FeatureVariations[first].FeatureTableSubstitution.SubstitutionRecord, 1)

FeaturesRewritten ==
    /\ Instantiating
    /\ "GSUB" \in font0.tables
    /\ font0.GSUB.hasFeatureVariations
    /\ Ran("gsub")
    /\ ~(pc = "error" /\ err.pc = "gsub")

\* C4: after the feature-variation rewrite FeatureList holds the
\* substitutions of the first record in document order that is not rejected
\* and has no surviving condition, and of no other record; a rejected record
\* neither changes FeatureList nor keeps a later record from being spliced in
C4_OnlyFirstApplyingRecordSpliced ==
    FeaturesRewritten => varfont.GSUB.FeatureList = ExpectedFeatureList(font0.GSUB)

\* the same for the inputs of which no record is rejected
OnlyFirstApplyingRecordSplicedUnlessRejected ==
    (FeaturesRewritten
        /\ \A k \in 1..Len(font0.GSUB.FeatureVariations) : ~Rejected(font0.GSUB.FeatureVariations[k]))
      => varfont.GSUB.FeatureList = ExpectedFeatureList(font0.GSUB)

-----------------------------------------------------------------------------
(* The order of gvar instancing *)

RECURSIVE TransitiveComponents(_, _)
\* the glyphs a glyph references as components, directly or transitively
TransitiveComponents(glyf, name) ==
    LET direct == Range(glyf[name].components)
    IN  direct \cup UNION {TransitiveComponents(glyf, c) : c \in direct}

RECURSIVE Depth(_, _)
\* composite depth: 0 for a simple glyph
Depth(glyf, name) ==
    IF glyf[name].components = <<>> THEN 0
    ELSE LET depths == {Depth(glyf, c) : c \in Range(glyf[name].components)}
         IN  1 + (CHOOSE d \in depths : \A e \in depths : e <= d)

\* C8: every glyph in gvar is processed exactly once; a composite is
\* processed after each of its transitive components in gvar, whose base
\* coordinates are then written back; the order is non-decreasing in
\* composite depth, ties broken by glyph name
C8_ComponentsBeforeComposites ==
    (Instantiating /\ "gvar" \in font0.tables /\ Ran("gvar")) =>
        LET order == processed \o glyphnames
        IN  /\ \A i, j \in 1..Len(order) : i # j => order[i] # order[j]
            /\ Range(order) = DOMAIN font0.gvar
            /\ Ran("gvarGlyph") => glyphnames = <<>>
            /\ \A i \in 1..Len(order) :
                  \A c \in TransitiveComponents(font0.glyf, order[i]) \cap DOMAIN font0.gvar :
                      \E j \in 1..(i - 1) : order[j] = c
            /\ \A j \in 1..Len(processed) :
                  varfont.glyf[processed[j]].coordinates
                      = OutlineAt(font0, processed[j], axis_limits)
            /\ \A j \in (Len(processed) + 1)..Len(order) :
                  varfont.glyf[order[j]].coordinates = font0.glyf[order[j]].coordinates
            /\ \A i, j \in 1..Len(order) :
                  i < j => \/ Depth(font0.glyf, order[i]) < Depth(font0.glyf, order[j])
                           \/ /\ Depth(font0.glyf, order[i]) = Depth(font0.glyf, order[j])
                              /\ order[i] < order[j]

\* glyph 1 is made of glyph 3, which is made of glyph 2: they were processed
\* in the order 2, 3, 1, and the coordinates of glyph 2 were moved
C8_Witness ==
    /\ pc = "done"
    /\ font0.glyf[1].components = <<3>>
    /\ font0.glyf[3].components = <<2>>
    /\ processed = <<2, 3, 1>>
    /\ varfont.glyf[2].coordinates # font0.glyf[2].coordinates

-----------------------------------------------------------------------------
(* instantiateVariableFont *)

\* the contents of a table of the font
TableOf(font, tag) ==
    IF tag = "avar" THEN font.avar
    ELSE IF tag = "glyf" THEN font.glyf
    ELSE IF tag = "gvar" THEN font.gvar
    ELSE IF tag = "cvt " THEN font.cvt
    ELSE IF tag = "cvar" THEN font.cvar
    ELSE IF tag = "MVAR" THEN <<font.MVAR>>
    ELSE IF tag = "GSUB" THEN <<font.GSUB>>
    ELSE IF tag = "GPOS" THEN <<font.GPOS>>
    ELSE <<>>

\* the two fonts hold the same tables with the same contents
SameTables(a, b) ==
    /\ a.tables = b.tables
    /\ a.metrics = b.metrics
    /\ \A tag \in a.tables : TableOf(a, tag) = TableOf(b, tag)

\* C5: with an empty axisLimits, a font that passes the sanity check is
\* returned with the tables of the input, except HVAR
C5_EmptyLimitsOnlyRemoveHvar ==
    (limits0 = <<>> /\ sanityCheckVariableTables(font0) = "none" /\ Terminal) =>
        /\ pc = "done"
        /\ SameTables(varfont, [font0 EXCEPT !.tables = @ \ {"HVAR"}])

\* axisLimits names declared axes only and holds a (low, high) pair with
\* low # high, and the font passes the sanity check
RangeRequested ==
    /\ sanityCheckVariableTables(font0) = "none"
    /\ DOMAIN limits0 \subseteq Tags
    /\ \E tag \in DOMAIN limits0 : isTuple(limits0[tag]) /\ limits0[tag][1] # limits0[tag][2]

\* C6: a (low, high) pair with low # high makes the call fail with the
\* range-unsupported error before any table is modified, also when inplace
C6_RangeRejectedBeforeAnyChange ==
    RangeRequested =>
        /\ \/ pc \in {"call", "normalize", "rangeCheck"}
           \/ pc = "error" /\ err.exc = "NotImplementedError" /\ err.pc = "rangeCheck"
        /\ SameTables(varfont, font0)
        /\ SameTables(callerFont, font0)

\* an in-place call with wght limited to (400, 900) on a font with gvar,
\* cvar, MVAR, GSUB and HVAR has failed
C6_Witness ==
    /\ pc = "error"
    /\ err.exc = "NotImplementedError"
    /\ inplace
    /\ limits0 = [t \in {"wght"} |-> rangeLimit(R(400), R(900))]
    /\ {"gvar", "cvar", "MVAR", "GSUB", "HVAR"} \subseteq font0.tables
    /\ callerFont = font0

\* C7: with inplace = false the call, whether it succeeds or fails, leaves
\* the caller's font and the caller's axisLimits as they were, and a second
\* call with the same font and the same axisLimits gives the result of the first
C7_PureWhenNotInplace ==
    (~inplace /\ Terminal) =>
        /\ SameTables(callerFont, font0)
        /\ axis_limits = limits0
        /\ Len(results) = 1 =>
              /\ results[1].err.exc = err.exc
              /\ SameTables(results[1].font, varfont)

====
